---- MODULE Spec2Model ----
(***************************************************************************)
(* Model of zquantum.core.evolution: construction of circuits simulating   *)
(* time evolution under a Hamiltonian (a QubitOperator), and of the        *)
(* circuits and factors of its derivative with respect to time.            *)
(*                                                                         *)
(* Numbers are exact.  A rational is a pair <<n, d>> in lowest terms with  *)
(* d > 0.  A value is a combination of the six monomials pi^p * x^e,       *)
(* p \in {0,1}, e \in {-1,0,1}, with rational coefficients, x being the    *)
(* one sympy symbol a coefficient may hold: this is closed under every     *)
(* arithmetic operation the module performs on its inputs.                 *)
(***************************************************************************)
EXTENDS Integers, Sequences, FiniteSets, TLC

VARIABLES call, result

vars == <<call, result>>

\* ---------------------------------------------------------------- bounds
MaxQubit == 2
MaxCoef == 2
MaxTime == 1
MaxOrder == 2
MaxTerms == 2
MaxLength == 3

\* ------------------------------------------------------------ arithmetic
Abs(n) == IF n < 0 THEN -n ELSE n

RECURSIVE GCD(_, _)
GCD(a, b) == IF b = 0 THEN a ELSE GCD(b, a % b)

RNorm(n, d) ==
    LET s == IF d < 0 THEN -1 ELSE 1
        g == GCD(Abs(n), Abs(d))
    IN  <<(s * n) \div g, (s * d) \div g>>

RInt(n) == <<n, 1>>
RZero == RInt(0)
RAdd(a, b) == RNorm(a[1] * b[2] + b[1] * a[2], a[2] * b[2])
RMul(a, b) == RNorm(a[1] * b[1], a[2] * b[2])
RDiv(a, b) == RNorm(a[1] * b[2], a[2] * b[1])
RNeg(a) == <<-a[1], a[2]>>

\* the monomials pi^p * x^e a value is a combination of
Basis == {0, 1} \X {-1, 0, 1}

VZero == [k \in Basis |-> RZero]
\* the value q * pi^p * x^e
VMono(q, p, e) == [k \in Basis |-> IF k = <<p, e>> THEN q ELSE RZero]
VNum(q) == VMono(q, 0, 0)
VAdd(a, b) == [k \in Basis |-> RAdd(a[k], b[k])]
VScale(a, q) == [k \in Basis |-> RMul(a[k], q)]
\* a value times a coefficient q * x^e (a number, e = 0, or q times the symbol)
VMulCoef(a, c) ==
    [k \in Basis |->
        IF <<k[1], k[2] - c.e>> \in Basis
        THEN RMul(a[<<k[1], k[2] - c.e>>], c.q) ELSE RZero]

\* a coefficient of a term: the number q (e = 0) or q times the symbol x (e = 1)
Coef(q, e) == [q |-> q, e |-> e]
IsNumeric(c) == c.e = 0
CoefDivInt(c, n) == Coef(RDiv(c.q, RInt(n)), c.e)
CoefTimes(c, s) == Coef(RMul(c.q, RInt(s)), c.e)

\* ----------------------------------------------------------------- gates
NoAngle == VZero
H(q) == [g |-> "H", q |-> <<q>>, a |-> NoAngle]
RX(angle, q) == [g |-> "RX", q |-> <<q>>, a |-> angle]
RZ(angle, q) == [g |-> "RZ", q |-> <<q>>, a |-> angle]
CNOT(c, t) == [g |-> "CNOT", q |-> <<c, t>>, a |-> NoAngle]

HalfPi == VMono(<<1, 2>>, 1, 0)
MinusHalfPi == VMono(<<-1, 2>>, 1, 0)

EmptyCircuit == <<>>

Reverse(s) == [i \in 1..Len(s) |-> s[Len(s) + 1 - i]]

\* --------------------------------------------------------------- results
\* What a call leaves behind: how it ended (status), what it returned
\* (circuit, or circuits and factors), the value its error message names
\* (method, or the index of the offending term), the number of terms it had
\* taken from the Hamiltonian, and the local single_trotter_derivatives.
Outcome(status, circuit, circuits, factors, method, term, termsRead, single) ==
    [status |-> status, circuit |-> circuit, circuits |-> circuits,
     factors |-> factors, named_method |-> method, named_term |-> term,
     termsRead |-> termsRead, single_trotter_derivatives |-> single]

Pending == Outcome("pending", <<>>, <<>>, <<>>, "", 0, 0, <<>>)
Raise(e, n) == Outcome(e, <<>>, <<>>, <<>>, "", 0, n, <<>>)
RaiseMethod(method) == Outcome("ValueError", <<>>, <<>>, <<>>, method, 0, 0, <<>>)
RaiseTerm(i, n) == Outcome("ValueError", <<>>, <<>>, <<>>, "", i, n, <<>>)
ReturnCircuit(c, n) == Outcome("ok", c, <<>>, <<>>, "", 0, n, <<>>)
ReturnLists(cs, fs, n, single) == Outcome("ok", <<>>, cs, fs, "", 0, n, single)

\* ------------------------------------------------ time_evolution_for_term
\* One pass of the loop over the components of the term, i counting from 1.
RECURSIVE TermLoop(_, _, _, _, _)
TermLoop(components, coefficient, time, i, acc) ==
    IF i > Len(components) THEN acc
    ELSE
        LET qubit_id == components[i][1]
            term_type == components[i][2]
            change == IF term_type = "X" THEN <<H(qubit_id)>>
                      ELSE IF term_type = "Y" THEN <<RX(HalfPi, qubit_id)>>
                      ELSE <<>>
            reversal == IF term_type = "X" THEN <<H(qubit_id)>>
                        ELSE IF term_type = "Y" THEN <<RX(MinusHalfPi, qubit_id)>>
                        ELSE <<>>
            last == i = Len(components)
            angle == VMulCoef(VScale(time, RInt(2)), coefficient)
        IN  TermLoop(components, coefficient, time, i + 1,
                [base_changes |-> acc.base_changes \o change,
                 base_reversals |-> acc.base_reversals \o reversal,
                 cnot_gates |-> IF last THEN acc.cnot_gates
                                ELSE Append(acc.cnot_gates,
                                            CNOT(qubit_id, components[i + 1][1])),
                 central_gate |-> IF last THEN <<RZ(angle, qubit_id)>>
                                  ELSE acc.central_gate])

\* TermCircuit with the CNOT staircase replayed forwards after the rotation
TermCircuitStaircaseTwice(term, time) ==
    LET acc == TermLoop(term.ops, term.coef, time, 1,
                        [base_changes |-> <<>>, base_reversals |-> <<>>,
                         cnot_gates |-> <<>>, central_gate |-> <<>>])
    IN  IF Len(term.ops) = 0 THEN EmptyCircuit
        ELSE acc.base_changes \o acc.cnot_gates \o acc.central_gate
             \o acc.cnot_gates \o acc.base_reversals

\* The circuit of an operator holding exactly one term.
TermCircuit(term, time) ==
    LET acc == TermLoop(term.ops, term.coef, time, 1,
                        [base_changes |-> <<>>, base_reversals |-> <<>>,
                         cnot_gates |-> <<>>, central_gate |-> <<>>])
    IN  IF Len(term.ops) = 0 THEN EmptyCircuit
        ELSE acc.base_changes \o acc.cnot_gates \o acc.central_gate
             \o Reverse(acc.cnot_gates) \o acc.base_reversals

time_evolution_for_term(op, time) ==
    IF Len(op.terms) # 1 THEN Raise("ValueError", 0)
    ELSE ReturnCircuit(TermCircuit(op.terms[1], time), 1)

\* --------------------------------------------------------- time_evolution
\* hamiltonian.get_operators(): the terms of the operator, in its own order
get_operators(hamiltonian) == hamiltonian.terms

\* time / trotter_order
VDivInt(time, n) == VScale(time, <<1, n>>)

\* the inner "for term in terms" of the generator: one circuit per term
RECURSIVE TermsPass(_, _, _)
TermsPass(terms, time, j) ==
    IF j > Len(terms) THEN <<>>
    ELSE <<TermCircuit(terms[j], time)>> \o TermsPass(terms, time, j + 1)

\* the outer "for _index_order in range(trotter_order)" of the generator
RECURSIVE EvolutionPieces(_, _, _, _)
EvolutionPieces(terms, time, trotter_order, index_order) ==
    IF index_order >= trotter_order THEN <<>>
    ELSE TermsPass(terms, VDivInt(time, trotter_order), 1)
         \o EvolutionPieces(terms, time, trotter_order, index_order + 1)

\* functools.reduce(operator.add, pieces) from the left, pieces non-empty
RECURSIVE ReduceAdd(_, _, _)
ReduceAdd(pieces, k, acc) ==
    IF k > Len(pieces) THEN acc
    ELSE ReduceAdd(pieces, k + 1, acc \o pieces[k])

\* time_evolution with the two loops of the generator swapped
time_evolution_term_major(hamiltonian, time, method, trotter_order) ==
    IF method # "Trotter" THEN RaiseMethod(method)
    ELSE
        LET terms == get_operators(hamiltonian)
            pieces == [k \in 1..(Len(terms) * trotter_order) |->
                        TermCircuit(terms[((k - 1) \div trotter_order) + 1],
                                    VDivInt(time, trotter_order))]
        IN  IF Len(pieces) = 0 THEN Raise("TypeError", Len(terms))
            ELSE ReturnCircuit(ReduceAdd(pieces, 2, pieces[1]), Len(terms))

time_evolution(hamiltonian, time, method, trotter_order) ==
    IF method # "Trotter" THEN RaiseMethod(method)
    ELSE
        LET terms == get_operators(hamiltonian)
            pieces == EvolutionPieces(terms, time, trotter_order, 0)
        IN  IF Len(pieces) = 0 THEN Raise("TypeError", Len(terms))
            ELSE ReturnCircuit(ReduceAdd(pieces, 2, pieces[1]), Len(terms))

\* ---------------------------------------------- _generate_circuit_sequence
RECURSIVE SequenceOperations(_, _, _, _, _)
SequenceOperations(repeated_circuit, different_circuit, length, position, i) ==
    IF i >= length THEN <<>>
    ELSE (IF i # position THEN repeated_circuit ELSE different_circuit)
         \o SequenceOperations(repeated_circuit, different_circuit,
                               length, position, i + 1)

\* generate_circuit_sequence with the range check off by one
generate_circuit_sequence_inclusive(repeated_circuit, different_circuit, length, position) ==
    IF position > length THEN Raise("ValueError", 0)
    ELSE ReturnCircuit(SequenceOperations(repeated_circuit, different_circuit,
                                          length, position, 0), 0)

generate_circuit_sequence(repeated_circuit, different_circuit, length, position) ==
    IF position >= length THEN Raise("ValueError", 0)
    ELSE ReturnCircuit(SequenceOperations(repeated_circuit, different_circuit,
                                          length, position, 0), 0)

\* --------------------------------------------- time_evolution_derivatives
Factors == <<1, -1>>

\* r of a term: its coefficient over trotter_order; a TypeError of the
\* coercion complex(coefficient) is reported as "TypeError"
TermR(kind, term, trotter_order) ==
    IF kind = "QubitOperator"
    THEN [status |-> "ok", r |-> CoefDivInt(term.coef, trotter_order)]
    ELSE IF IsNumeric(term.coef)
         THEN [status |-> "ok", r |-> CoefDivInt(term.coef, trotter_order)]
         ELSE [status |-> "TypeError", r |-> term.coef]

\* Shift with the division by 4.0 * r read as a division by 4.0 only
ShiftTimesR(factor, r) ==
    VMono(RMul(RDiv(RInt(factor), RInt(4)), r.q), 1, r.e)

\* factor * (np.pi / (4.0 * r)), r non-zero
Shift(factor, r) ==
    VMono(RDiv(RInt(factor), RMul(RInt(4), r.q)), 1, -r.e)

\* the loop "for j, term_2 in enumerate(terms)" building one perturbed step
RECURSIVE PerturbedStep(_, _, _, _, _, _)
PerturbedStep(terms, time, shift, trotter_order, i, j) ==
    IF j > Len(terms) THEN EmptyCircuit
    ELSE TermCircuit(terms[j],
                     IF i = j THEN VDivInt(VAdd(time, shift), trotter_order)
                     ELSE VDivInt(time, trotter_order))
         \o PerturbedStep(terms, time, shift, trotter_order, i, j + 1)

\* the loops "for i, term_1" and "for factor in factors"; f indexes Factors
RECURSIVE DerivativeLoop(_, _, _, _, _, _, _)
DerivativeLoop(kind, terms, time, trotter_order, i, f, acc) ==
    IF i > Len(terms) THEN acc
    ELSE IF f > Len(Factors)
    THEN DerivativeLoop(kind, terms, time, trotter_order, i + 1, 1, acc)
    ELSE
        LET factor == Factors[f]
            tr == TermR(kind, terms[i], trotter_order)
            r == tr.r
        IN  IF tr.status # "ok"
            THEN [acc EXCEPT !.status = "ValueError", !.offending = i]
            ELSE IF r.q = RZero
            THEN [acc EXCEPT !.status = "ZeroDivisionError"]
            ELSE DerivativeLoop(kind, terms, time, trotter_order, i, f + 1,
                    [status |-> "ok", offending |-> 0,
                     output_factors |->
                        Append(acc.output_factors, CoefTimes(r, factor)),
                     single_trotter_derivatives |->
                        Append(acc.single_trotter_derivatives,
                               PerturbedStep(terms, time, Shift(factor, r),
                                             trotter_order, i, 1))])

\* the inner "for factor, different_circuit in zip(...)" for one position
RECURSIVE PositionPass(_, _, _, _, _)
PositionPass(repeated_circuit, derivatives, trotter_order, position, k) ==
    IF k > Len(derivatives) THEN <<>>
    ELSE <<generate_circuit_sequence(repeated_circuit, derivatives[k],
                                     trotter_order, position).circuit>>
         \o PositionPass(repeated_circuit, derivatives, trotter_order,
                         position, k + 1)

\* the outer "for position in range(trotter_order)"
RECURSIVE OutputCircuits(_, _, _, _)
OutputCircuits(repeated_circuit, derivatives, trotter_order, position) ==
    IF position >= trotter_order THEN <<>>
    ELSE PositionPass(repeated_circuit, derivatives, trotter_order, position, 1)
         \o OutputCircuits(repeated_circuit, derivatives, trotter_order,
                           position + 1)

RECURSIVE FinalFactors(_, _, _)
FinalFactors(output_factors, trotter_order, position) ==
    IF position >= trotter_order THEN <<>>
    ELSE output_factors
         \o FinalFactors(output_factors, trotter_order, position + 1)

\* RepeatedCircuit built with the trotter_order of the caller
RepeatedCircuitAllSteps(hamiltonian, time, trotter_order) ==
    time_evolution(hamiltonian, time, "Trotter", trotter_order)

\* the one-step circuit the unperturbed slots are filled with
RepeatedCircuit(hamiltonian, time, trotter_order) ==
    time_evolution(hamiltonian, time, "Trotter", 1)

\* time_evolution_derivatives checking the method after the loop over terms
time_evolution_derivatives_late_check(hamiltonian, time, method, trotter_order) ==
    LET terms == get_operators(hamiltonian)
        n == Len(terms)
        acc == DerivativeLoop(hamiltonian.kind, terms, time, trotter_order,
                    1, 1,
                    [status |-> "ok", offending |-> 0,
                     output_factors |-> <<>>,
                     single_trotter_derivatives |-> <<>>])
        repeated == RepeatedCircuit(hamiltonian, time, trotter_order)
    IN  IF acc.status = "ValueError" THEN RaiseTerm(acc.offending, n)
        ELSE IF acc.status # "ok" THEN Raise(acc.status, n)
        ELSE IF method # "Trotter"
        THEN Outcome("ValueError", <<>>, <<>>, <<>>, method, 0, n, <<>>)
        ELSE IF trotter_order > 1
        THEN IF repeated.status # "ok" THEN Raise(repeated.status, n + n)
             ELSE ReturnLists(
                    OutputCircuits(repeated.circuit,
                        acc.single_trotter_derivatives, trotter_order, 0),
                    FinalFactors(acc.output_factors, trotter_order, 0),
                    n + n, acc.single_trotter_derivatives)
        ELSE ReturnLists(acc.single_trotter_derivatives,
                         acc.output_factors, n,
                         acc.single_trotter_derivatives)

time_evolution_derivatives(hamiltonian, time, method, trotter_order) ==
    IF method # "Trotter" THEN RaiseMethod(method)
    ELSE
        LET terms == get_operators(hamiltonian)
            n == Len(terms)
            acc == DerivativeLoop(hamiltonian.kind, terms, time, trotter_order,
                        1, 1,
                        [status |-> "ok", offending |-> 0,
                         output_factors |-> <<>>,
                         single_trotter_derivatives |-> <<>>])
            repeated == RepeatedCircuit(hamiltonian, time, trotter_order)
        IN  IF acc.status = "ValueError" THEN RaiseTerm(acc.offending, n)
            ELSE IF acc.status # "ok" THEN Raise(acc.status, n)
            ELSE IF trotter_order > 1
            THEN IF repeated.status # "ok" THEN Raise(repeated.status, n + n)
                 ELSE ReturnLists(
                        OutputCircuits(repeated.circuit,
                            acc.single_trotter_derivatives, trotter_order, 0),
                        FinalFactors(acc.output_factors, trotter_order, 0),
                        n + n, acc.single_trotter_derivatives)
            ELSE ReturnLists(acc.single_trotter_derivatives,
                             acc.output_factors, n,
                             acc.single_trotter_derivatives)

\* ---------------------------------------------------------------- inputs
Qubits == 0..MaxQubit
Axes == {"X", "Y", "Z"}

\* the keys of QubitOperator.terms: factors sorted by qubit index, no repeats
PauliStrings ==
    {s \in UNION {[1..k -> Qubits \X Axes] : k \in 0..(MaxQubit + 1)} :
        \A i \in 1..(Len(s) - 1) : s[i][1] < s[i + 1][1]}

\* the Pauli strings Hamiltonians are built from
HamStrings == {<<>>,
               <<<<0, "Z">>>>,
               <<<<1, "X">>>>,
               <<<<0, "Z">>, <<1, "X">>>>}

Symbol == Coef(RInt(1), 1)
CoefPool == {Coef(RInt(c), 0) : c \in (-1)..MaxCoef} \cup {Symbol}

Term(ops, coef) == [ops |-> ops, coef |-> coef]
Operator(kind, terms) == [kind |-> kind, terms |-> terms]

\* operators of at most MaxTerms terms, each Pauli string held at most once
Hamiltonians(kind) ==
    {Operator(kind, ts) :
        ts \in {t \in UNION {[1..n -> {Term(o, c) : o \in HamStrings, c \in CoefPool}] :
                             n \in 0..MaxTerms} :
                    \A i, j \in 1..Len(t) : i # j => t[i].ops # t[j].ops}}

SingleTerms == {Operator("QubitOperator", <<Term(o, c)>>) :
                    o \in PauliStrings, c \in CoefPool}

Times == {VNum(RInt(t)) : t \in 0..MaxTime}
Methods == {"Trotter", "Suzuki"}
TrotterOrders == 1..MaxOrder

GenCircuits == {EmptyCircuit,
                <<H(0)>>,
                <<RZ(VNum(RInt(1)), 0), CNOT(0, 1)>>}

NoOperator == Operator("QubitOperator", <<>>)

Call(fn, hamiltonian, time, method, trotter_order, R, D, length, position) ==
    [fn |-> fn, hamiltonian |-> hamiltonian, time |-> time, method |-> method,
     trotter_order |-> trotter_order, repeated_circuit |-> R,
     different_circuit |-> D, length |-> length, position |-> position]

\* ---------------------------------------------------------- state machine
Init ==
    /\ result = Pending
    /\ \/ \E op \in SingleTerms \cup Hamiltonians("QubitOperator"), t \in Times :
            call = Call("time_evolution_for_term", op, t, "Trotter", 1,
                        <<>>, <<>>, 0, 0)
       \/ \E h \in Hamiltonians("QubitOperator"), t \in Times, m \in Methods,
             r \in TrotterOrders :
            call = Call("time_evolution", h, t, m, r, <<>>, <<>>, 0, 0)
       \/ \E k \in {"QubitOperator", "other"}, t \in Times, m \in Methods,
             r \in TrotterOrders :
            \E h \in Hamiltonians(k) :
                call = Call("time_evolution_derivatives", h, t, m, r,
                            <<>>, <<>>, 0, 0)
       \/ \E R \in GenCircuits, D \in GenCircuits,
             length \in (-1)..MaxLength, position \in (-1)..(MaxLength + 1) :
            call = Call("_generate_circuit_sequence", NoOperator, VZero,
                        "Trotter", 1, R, D, length, position)

CallTimeEvolutionForTerm ==
    /\ call.fn = "time_evolution_for_term"
    /\ result.status = "pending"
    /\ result' = time_evolution_for_term(call.hamiltonian, call.time)
    /\ UNCHANGED call

CallTimeEvolution ==
    /\ call.fn = "time_evolution"
    /\ result.status = "pending"
    /\ result' = time_evolution(call.hamiltonian, call.time, call.method,
                                call.trotter_order)
    /\ UNCHANGED call

CallTimeEvolutionDerivatives ==
    /\ call.fn = "time_evolution_derivatives"
    /\ result.status = "pending"
    /\ result' = time_evolution_derivatives(call.hamiltonian, call.time,
                                            call.method, call.trotter_order)
    /\ UNCHANGED call

CallGenerateCircuitSequence ==
    /\ call.fn = "_generate_circuit_sequence"
    /\ result.status = "pending"
    /\ result' = generate_circuit_sequence(call.repeated_circuit,
                    call.different_circuit, call.length, call.position)
    /\ UNCHANGED call

Next ==
    \/ CallTimeEvolutionForTerm
    \/ CallTimeEvolution
    \/ CallTimeEvolutionDerivatives
    \/ CallGenerateCircuitSequence

Spec == Init /\ [][Next]_vars

\* ================================================================ claims
Returned == result.status # "pending"

\* concatenation of a sequence of circuits
RECURSIVE Concat(_)
Concat(cs) == IF Len(cs) = 0 THEN <<>> ELSE Head(cs) \o Concat(Tail(cs))

NotZ(component) == component[2] # "Z"

\* the gate sequence the contract of the exponentiator prescribes for the
\* Pauli string ops with coefficient c at time t
PrescribedTermCircuit(ops, c, t) ==
    LET k == Len(ops)
        rotated == SelectSeq(ops, NotZ)
        changes == [j \in 1..Len(rotated) |->
                        IF rotated[j][2] = "X" THEN H(rotated[j][1])
                        ELSE RX(HalfPi, rotated[j][1])]
        reversals == [j \in 1..Len(rotated) |->
                        IF rotated[j][2] = "X" THEN H(rotated[j][1])
                        ELSE RX(MinusHalfPi, rotated[j][1])]
        staircase == [i \in 1..(k - 1) |-> CNOT(ops[i][1], ops[i + 1][1])]
        unstaircase == [i \in 1..(k - 1) |-> CNOT(ops[k - i][1], ops[k - i + 1][1])]
        rotation == RZ(VScale(VMulCoef(t, c), RInt(2)), ops[k][1])
    IN  IF k = 0 THEN <<>>
        ELSE changes \o staircase \o <<rotation>> \o unstaircase \o reversals

\* C1: for an operator holding exactly one Pauli term, time_evolution_for_term
\* returns exactly: basis changes in term order, the CNOT staircase, one
\* RZ(2*t*c) on the last qubit, the staircase reversed, the basis reversals in
\* term order; the empty circuit for a term without factors.
C1_TermGateSequence ==
    (/\ call.fn = "time_evolution_for_term"
     /\ Len(call.hamiltonian.terms) = 1
     /\ Returned)
    => /\ result.status = "ok"
       /\ result.circuit =
            PrescribedTermCircuit(call.hamiltonian.terms[1].ops,
                                  call.hamiltonian.terms[1].coef, call.time)

\* a three-factor term with an X and a Y factor has been exponentiated
C1_Witness ==
    /\ call.fn = "time_evolution_for_term"
    /\ Len(call.hamiltonian.terms) = 1
    /\ call.hamiltonian.terms[1].ops = <<<<0, "X">>, <<1, "Y">>, <<2, "Z">>>>
    /\ call.hamiltonian.terms[1].coef = Coef(RInt(2), 0)
    /\ call.time = VNum(RInt(1))
    /\ result.status = "ok"
    /\ Len(result.circuit) = 9

\* C2: with method 'Trotter', n >= 1 terms and trotter_order r >= 1,
\* time_evolution returns r consecutive copies of the one-step circuit
\* [T_0 at t/r, ..., T_{n-1} at t/r], gate for gate.
C2_TrotterComposition ==
    (/\ call.fn = "time_evolution"
     /\ call.method = "Trotter"
     /\ Len(call.hamiltonian.terms) >= 1
     /\ Returned)
    => LET terms == call.hamiltonian.terms
           n == Len(terms)
           r == call.trotter_order
           angle == VScale(call.time, RDiv(RInt(1), RInt(r)))
           step == Concat([j \in 1..n |-> TermCircuit(terms[j], angle)])
       IN  /\ result.status = "ok"
           /\ result.circuit = Concat([rep \in 1..r |-> step])

\* two terms with different circuits have been composed over two repetitions
C2_Witness ==
    /\ call.fn = "time_evolution"
    /\ call.method = "Trotter"
    /\ call.trotter_order = 2
    /\ Len(call.hamiltonian.terms) = 2
    /\ call.hamiltonian.terms[1].ops = <<<<0, "Z">>, <<1, "X">>>>
    /\ call.hamiltonian.terms[2].ops = <<<<0, "Z">>>>
    /\ call.hamiltonian.terms[1].coef = Coef(RInt(2), 0)
    /\ call.hamiltonian.terms[2].coef = Coef(RInt(1), 0)
    /\ call.time = VNum(RInt(1))
    /\ result.status = "ok"
    /\ Len(result.circuit) = 12

\* C3: with method 'Trotter' on a Hamiltonian without terms time_evolution
\* returns the empty circuit, and time_evolution fails only on an
\* unsupported method.
C3_EmptyHamiltonianEmptyCircuit ==
    (call.fn = "time_evolution" /\ call.method = "Trotter" /\ Returned)
    => /\ result.status = "ok"
       /\ Len(call.hamiltonian.terms) = 0 => result.circuit = EmptyCircuit

\* ------------------------------------------------------------ derivatives
DerivativesCall == call.fn = "time_evolution_derivatives"

\* the sign of the pair at position k (from 1) of the term-then-sign order
SignOf(k) == IF (k - 1) % 2 = 0 THEN 1 ELSE -1
\* the term index (from 1) of the pair at position k
TermOf(k) == ((k - 1) \div 2) + 1

\* (c / r) * s
PrescribedFactor(c, r, s) == Coef(RMul(RDiv(c.q, RInt(r)), RInt(s)), c.e)

\* the one-step circuit in which only term i is shifted:
\* angle_i = (time + s * pi / (4 * (c_i / r))) / r, angle_j = time / r
PrescribedPerturbedStep(terms, time, r, i, s) ==
    LET c == terms[i].coef
        shift == VMono(RDiv(RInt(s * r), RMul(RInt(4), c.q)), 1, -c.e)
        shifted == VScale(VAdd(time, shift), RDiv(RInt(1), RInt(r)))
        plain == VScale(time, RDiv(RInt(1), RInt(r)))
    IN  Concat([j \in 1..Len(terms) |->
                    TermCircuit(terms[j], IF j = i THEN shifted ELSE plain)])

NumericNonZero(terms) ==
    \A i \in 1..Len(terms) : IsNumeric(terms[i].coef) /\ terms[i].coef.q # RZero

\* C4: for n terms with numeric non-zero coefficients and trotter_order r,
\* time_evolution_derivatives returns 2*n*r circuits and 2*n*r factors, the
\* factor at index p*2n + 2*i + sigma being (c_i / r) * s.
C4_FactorList ==
    (/\ DerivativesCall
     /\ call.method = "Trotter"
     /\ NumericNonZero(call.hamiltonian.terms)
     /\ Returned)
    => LET terms == call.hamiltonian.terms
           n == Len(terms)
           r == call.trotter_order
       IN  /\ result.status = "ok"
           /\ Len(result.circuits) = 2 * n * r
           /\ Len(result.factors) = 2 * n * r
           /\ \A p \in 0..(r - 1), i \in 0..(n - 1), sigma \in {0, 1} :
                result.factors[p * 2 * n + 2 * i + sigma + 1] =
                    PrescribedFactor(terms[i + 1].coef, r,
                                     IF sigma = 0 THEN 1 ELSE -1)

\* C5: the perturbed one-step circuit of (i, s) exponentiates term i at
\* (time + shift) / trotter_order, shift = s * pi / (4 * (c_i / trotter_order)),
\* and every other term at time / trotter_order; with trotter_order = 1 the
\* returned circuits are exactly these, in term-then-sign order.
C5_PerturbedSteps ==
    (DerivativesCall /\ call.method = "Trotter" /\ result.status = "ok")
    => LET terms == call.hamiltonian.terms
           n == Len(terms)
           r == call.trotter_order
           steps == [k \in 1..(2 * n) |->
                        PrescribedPerturbedStep(terms, call.time, r,
                                                TermOf(k), SignOf(k))]
       IN  /\ result.single_trotter_derivatives = steps
           /\ r = 1 => result.circuits = steps

\* two terms, trotter_order 2: four perturbed steps have been built
C5_Witness ==
    /\ DerivativesCall
    /\ call.method = "Trotter"
    /\ call.trotter_order = 2
    /\ call.time = VNum(RInt(1))
    /\ Len(call.hamiltonian.terms) = 2
    /\ call.hamiltonian.terms[1] = Term(<<<<0, "Z">>, <<1, "X">>>>, Coef(RInt(2), 0))
    /\ call.hamiltonian.terms[2] = Term(<<<<0, "Z">>>>, Coef(RInt(-1), 0))
    /\ result.status = "ok"
    /\ Len(result.single_trotter_derivatives) = 4

\* C6: with trotter_order r > 1 the circuit emitted for slot p and pair (i, s)
\* is r slots, slot p the perturbed step of (i, s) and every other slot
\* time_evolution(hamiltonian, time, 'Trotter', 1); it is paired with the
\* factor of (i, s).
C6_SplicedCircuits ==
    (/\ DerivativesCall
     /\ call.method = "Trotter"
     /\ call.trotter_order > 1
     /\ result.status = "ok")
    => LET terms == call.hamiltonian.terms
           n == Len(terms)
           r == call.trotter_order
           repeated == time_evolution(call.hamiltonian, call.time, "Trotter", 1).circuit
       IN  \A p \in 0..(r - 1), k \in 1..(2 * n) :
              /\ p * 2 * n + k \in DOMAIN result.circuits
              /\ result.circuits[p * 2 * n + k] =
                    Concat([slot \in 1..r |->
                        IF slot - 1 = p
                        THEN PrescribedPerturbedStep(terms, call.time, r,
                                                     TermOf(k), SignOf(k))
                        ELSE repeated])
              /\ p * 2 * n + k \in DOMAIN result.factors
              /\ result.factors[p * 2 * n + k] =
                    PrescribedFactor(terms[TermOf(k)].coef, r, SignOf(k))

\* two terms spliced over two slots: eight circuits with their factors
C6_Witness ==
    /\ DerivativesCall
    /\ call.method = "Trotter"
    /\ call.trotter_order = 2
    /\ call.time = VNum(RInt(1))
    /\ Len(call.hamiltonian.terms) = 2
    /\ call.hamiltonian.terms[1] = Term(<<<<1, "X">>>>, Coef(RInt(1), 0))
    /\ call.hamiltonian.terms[2] = Term(<<<<0, "Z">>, <<1, "X">>>>, Coef(RInt(2), 0))
    /\ result.status = "ok"
    /\ Len(result.circuits) = 8
    /\ Len(result.factors) = 8

\* C7: _generate_circuit_sequence(R, D, length, position) with
\* 0 <= position < length returns `length` circuits concatenated, instance i
\* being D when i = position and R otherwise, and leaves R and D as they
\* were; with position >= length it raises ValueError and returns nothing.
C7_Splicing ==
    [][(call.fn = "_generate_circuit_sequence" /\ result.status = "pending")
        => /\ call' = call
           /\ (0 <= call.position /\ call.position < call.length)
                => /\ result'.status = "ok"
                   /\ result'.circuit =
                        Concat([i \in 1..call.length |->
                            IF i - 1 = call.position
                            THEN call.different_circuit
                            ELSE call.repeated_circuit])
           /\ call.position >= call.length
                => /\ result'.status = "ValueError"
                   /\ result'.circuit = <<>>]_vars

\* R + D + R has been produced for length 3, position 1
C7_Witness ==
    /\ call.fn = "_generate_circuit_sequence"
    /\ call.length = 3
    /\ call.position = 1
    /\ call.repeated_circuit = <<H(0)>>
    /\ call.different_circuit = <<RZ(VNum(RInt(1)), 0), CNOT(0, 1)>>
    /\ result.status = "ok"
    /\ result.circuit = <<H(0), RZ(VNum(RInt(1)), 0), CNOT(0, 1), H(0)>>

HasSymbolicCoefficient(terms) ==
    \E i \in 1..Len(terms) : ~IsNumeric(terms[i].coef)

\* C8: time_evolution_derivatives raises ValueError naming the offending
\* term, and returns no list, whenever a term has a symbolic coefficient,
\* whatever the representation of the terms.
C8_SymbolicCoefficientRejected ==
    (/\ DerivativesCall
     /\ call.method = "Trotter"
     /\ HasSymbolicCoefficient(call.hamiltonian.terms)
     /\ Returned)
    => /\ result.status = "ValueError"
       /\ result.named_term \in 1..Len(call.hamiltonian.terms)
       /\ ~IsNumeric(call.hamiltonian.terms[result.named_term].coef)
       /\ result.circuits = <<>>
       /\ result.factors = <<>>

\* C9: with a method other than 'Trotter', time_evolution and
\* time_evolution_derivatives raise ValueError naming the method before any
\* term of the Hamiltonian is read, and return nothing.
C9_UnsupportedMethod ==
    (/\ call.fn \in {"time_evolution", "time_evolution_derivatives"}
     /\ call.method # "Trotter"
     /\ Returned)
    => /\ result.status = "ValueError"
       /\ result.named_method = call.method
       /\ result.termsRead = 0
       /\ result.circuit = <<>>
       /\ result.circuits = <<>>
       /\ result.factors = <<>>

\* 'Suzuki' has been rejected by the derivative constructor for a
\* Hamiltonian of two terms
C9_Witness ==
    /\ DerivativesCall
    /\ call.method = "Suzuki"
    /\ Len(call.hamiltonian.terms) = 2
    /\ call.trotter_order = 2
    /\ result.status = "ValueError"
    /\ result.named_method = "Suzuki"

\* the index in a one-step circuit of the RZ of term i, 0 if it has none
RotationIndex(terms, i) ==
    LET before == Concat([j \in 1..(i - 1) |-> TermCircuit(terms[j], VZero)])
        ops == terms[i].ops
    IN  IF Len(ops) = 0 THEN 0
        ELSE Len(before) + Len(SelectSeq(ops, NotZ)) + Len(ops)

\* C10: with trotter_order r > 1 every circuit time_evolution_derivatives
\* returns equals time_evolution(hamiltonian, time, 'Trotter', r) in every
\* gate but the RZ of the perturbed term in the perturbed slot.
C10_AgreesWithEvolution ==
    (/\ DerivativesCall
     /\ call.method = "Trotter"
     /\ call.trotter_order > 1
     /\ result.status = "ok")
    => LET terms == call.hamiltonian.terms
           n == Len(terms)
           r == call.trotter_order
           evolution == time_evolution(call.hamiltonian, call.time, "Trotter", r).circuit
           stepLen == Len(evolution) \div r
       IN  \A p \in 0..(r - 1), k \in 1..(2 * n) :
              LET c == result.circuits[p * 2 * n + k]
                  rot == RotationIndex(terms, TermOf(k))
                  perturbed == IF rot = 0 THEN 0 ELSE p * stepLen + rot
              IN  /\ Len(c) = Len(evolution)
                  /\ \A g \in 1..Len(c) : g # perturbed => c[g] = evolution[g]

\* C11: every call of _generate_circuit_sequence(R, D, length, position) that
\* returns, for any integers length and position, returns exactly `length`
\* slots of which exactly one is D and the other length - 1 are R; no
\* returning call yields a circuit without D.
C11_ReturnedSequenceHoldsD ==
    (call.fn = "_generate_circuit_sequence" /\ result.status = "ok")
    => /\ call.length >= 1
       /\ \E p \in 0..(call.length - 1) :
            result.circuit =
                Concat([i \in 1..call.length |->
                    IF i - 1 = p THEN call.different_circuit
                    ELSE call.repeated_circuit])

====
